---- MODULE Spec2Model ----
(***************************************************************************)
(* SmartForm Builder API (src/main.py): form creation, and the submission  *)
(* pipeline submit_form = normalise payload -> upload attachments ->       *)
(* required-field validation -> store commit -> best-effort sheet append.  *)
(***************************************************************************)
EXTENDS Integers, Sequences, FiniteSets, TLC

\* ---------------------------------------------------------------- bounds
MaxClock == 2          \* the clock ticks at most this many times
TicksPerSecond == 2    \* clock resolution: ticks in one second
MaxForms == 2          \* concurrent create_form calls
MaxRequests == 1       \* concurrent submit calls
MaxEntries == 3        \* multipart entries of a payload in SpecFold

\* ------------------------------------------------------- program constants
TitlePrefixLen == 25   \* title[:25] in the sheet tab title

VARIABLES
    now,          \* datetime.utcnow(), in ticks
    forms,        \* collection "form": documents in insertion order
    submissions,  \* collection "submission": documents in insertion order
    blobs,        \* Drive folder: uploaded files in upload order
    tabs,         \* titles of the tabs of the master spreadsheet
    sheet,        \* rows appended to the master spreadsheet, in append order
    cr,           \* create_form calls: position and locals of each
    rq,           \* submit_form calls: position and locals of each
    fItems,       \* SpecFold: the multipart entries being folded
    fIdx,         \* SpecFold: next entry of the loop
    fData         \* SpecFold: the attribute map built so far

vars == <<now, forms, submissions, blobs, tabs, sheet, cr, rq, fItems, fIdx, fData>>

Creators == 1..MaxForms
Requests == 1..MaxRequests

\* ------------------------------------------------------------ values
\* A JSON / form value: a scalar string, or a list of strings. None is what
\* dict.get returns for an absent key.
Scalar(s) == [isList |-> FALSE, items |-> <<s>>]
ListOf(ss) == [isList |-> TRUE, items |-> ss]
None == [isList |-> FALSE, items |-> <<>>]

EmptyMap == [k \in {} |-> None]

\* dict.get(k)
Get(m, k) == IF k \in DOMAIN m THEN m[k] ELSE None

\* Python truthiness of a value: None, "" and [] are falsy.
Truthy(v) ==
    IF v.isList THEN Len(v.items) > 0
    ELSE v # None /\ v.items[1] # ""

\* ", ".join(map(str, value))
RECURSIVE Join(_)
Join(ss) ==
    IF Len(ss) = 0 THEN ""
    ELSE IF Len(ss) = 1 THEN ss[1]
    ELSE ss[1] \o ", " \o Join(Tail(ss))

\* The characters of a string, concatenated.
RECURSIVE Concat(_)
Concat(cs) == IF Len(cs) = 0 THEN "" ELSE cs[1] \o Concat(Tail(cs))

\* str.lower() on one character.
LowerChar(c) ==
    CASE c = "R" -> "r"
      [] c = "V" -> "v"
      [] c = "Q" -> "q"
      [] c = "D" -> "d"
      [] OTHER -> c

\* title.lower().replace(' ', '-')
SlugBase(title) ==
    Concat([i \in 1..Len(title) |->
              IF LowerChar(title[i]) = " " THEN "-" ELSE LowerChar(title[i])])

\* int(datetime.utcnow().timestamp()): whole seconds.
Seconds(t) == t \div TicksPerSecond

\* f"{title.lower().replace(' ', '-')}-{int(datetime.utcnow().timestamp())}"
MakeSlug(title, t) == SlugBase(title) \o "-" \o ToString(Seconds(t))

\* f"{title[:25]}-{int(datetime.utcnow().timestamp())}"
SheetTitle(title, t) ==
    Concat(SubSeq(title, 1, IF Len(title) < TitlePrefixLen THEN Len(title) ELSE TitlePrefixLen))
        \o "-" \o ToString(Seconds(t))

\* datetime.isoformat(): one text per instant.
IsoFormat(t) == "T" \o ToString(t)

\* ------------------------------------------------------------ inputs
Fld(id, label, required) == [id |-> id, label |-> label, required |-> required]

FieldsA == << Fld("name", "Full name", TRUE), Fld("resume", "", TRUE),
              Fld("colors", "Colors", FALSE) >>
FieldsB == << Fld("colors", "Colors", FALSE), Fld("resume", "CV", FALSE) >>
FieldsDup == << Fld("name", "Full name", TRUE), Fld("name", "Nick", FALSE) >>

\* CreateFormRequest bodies (title as its characters, fields).
TitleRV == <<"R", " ", "V">>
FormRequestSeq ==
    << [title |-> TitleRV, fields |-> FieldsA],
       [title |-> <<"Q">>, fields |-> FieldsB],
       [title |-> <<"D">>, fields |-> FieldsDup],
       [title |-> <<"r", "-", "v">>, fields |-> FieldsB] >>
FormRequests == { FormRequestSeq[i] : i \in 1..Len(FormRequestSeq) }

TextEntry(k, v) == [key |-> k, isFile |-> FALSE, filename |-> "", text |-> v]
FileEntry(k, fn) == [key |-> k, isFile |-> TRUE, filename |-> fn, text |-> ""]

JsonBody(d) == [json |-> TRUE, data |-> d, items |-> <<>>]
Multipart(es) == [json |-> FALSE, data |-> EmptyMap, items |-> es]

\* Request bodies of submit.
Payloads ==
    { JsonBody(EmptyMap),
      JsonBody(("name" :> Scalar("Ana")) @@ ("colors" :> ListOf(<<"red", "green">>))
                 @@ ("extra" :> Scalar("x"))),
      JsonBody(("name" :> Scalar("")) @@ ("resume" :> Scalar("r.pdf"))
                 @@ ("colors" :> ListOf(<<>>))),
      Multipart(<< FileEntry("resume", "cv.pdf"), TextEntry("name", "Ana") >>),
      Multipart(<< TextEntry("name", "Ana"), TextEntry("resume", "attached"),
                   FileEntry("resume", "cv.pdf") >>),
      Multipart(<< FileEntry("resume", "a.pdf"), FileEntry("colors", "b.png") >>),
      Multipart(<< TextEntry("colors", "red"), FileEntry("resume", ""),
                   TextEntry("colors", "green") >>) }

\* Slugs a caller may submit to: one per form a create_form call can make,
\* and one that no form has.
SlugsTried == { f.share_slug : f \in { forms[i] : i \in 1..Len(forms) } } \cup { "nope-0" }

\* ------------------------------------------------------- create_form
NoFormRequest == [title |-> <<>>, fields |-> <<>>]
CrIdle == [pc |-> "idle", body |-> NoFormRequest, sheet_name |-> "", result |-> "none"]

\* create_document(collection, model): the record as stored, with the identity
\* (the position in the collection stands for the ObjectId) and the creation
\* time the store assigns.
CreateDocument(id, rec, t) == [id |-> id, created_at |-> t] @@ rec

\* FormSchema(title, description, fields, sheet_name, share_slug, owner_uid)
FormSchema(body, sheet_name, t) ==
    [title |-> body.title, fields |-> body.fields,
     sheet_name |-> sheet_name, share_slug |-> MakeSlug(body.title, t)]

\* create_sheet_tab_for_form: addSheet (the Sheets service refuses a tab title
\* that exists) and the header row; any Google error is a 500 and no form is made.
CreateSheetTab(c, body, ok) ==
    /\ cr[c].pc = "idle"
    /\ LET title == SheetTitle(body.title, now) IN
       IF ok /\ title \notin tabs
       THEN /\ tabs' = tabs \cup {title}
            /\ cr' = [cr EXCEPT ![c] = [pc |-> "insert", body |-> body,
                                        sheet_name |-> title, result |-> "none"]]
       ELSE /\ tabs' = tabs
            /\ cr' = [cr EXCEPT ![c] = [pc |-> "done", body |-> body,
                                        sheet_name |-> "", result |-> "error"]]
    /\ UNCHANGED <<now, forms, submissions, blobs, sheet, rq, fItems, fIdx, fData>>

\* create_form after the tab exists: the slug, then create_document("form", ...).
\* Nothing looks for an existing form with the slug.
CreateFormInsert(c, ok) ==
    /\ cr[c].pc = "insert"
    /\ IF ok
       THEN /\ forms' = Append(forms, CreateDocument(Len(forms) + 1,
                                                  FormSchema(cr[c].body, cr[c].sheet_name, now), now))
            /\ cr' = [cr EXCEPT ![c].pc = "done", ![c].result = "ok"]
       ELSE /\ forms' = forms
            /\ cr' = [cr EXCEPT ![c].pc = "done", ![c].result = "error"]
    /\ UNCHANGED <<now, submissions, blobs, tabs, sheet, rq, fItems, fIdx, fData>>

\* db["form"].find_one({"share_slug": slug}): the first match, 0 for none.
FindOne(slug) ==
    LET hits == { i \in 1..Len(forms) : forms[i].share_slug = slug } IN
    IF hits = {} THEN 0 ELSE CHOOSE i \in hits : \A j \in hits : i <= j

\* ------------------------------------------------------- submit_form
\* FoldEntry with the scalar-to-list step forgetting the value already held.
FoldEntryForgetful(data, k, v) ==
    IF k \in DOMAIN data
    THEN IF data[k].isList
         THEN [data EXCEPT ![k] = ListOf(Append(@.items, v))]
         ELSE [data EXCEPT ![k] = ListOf(<<v>>)]
    ELSE (k :> Scalar(v)) @@ data

\* The multipart loop's text branch: unseen key -> scalar; seen as a scalar ->
\* two-element list; seen as a list -> append.
FoldEntry(data, k, v) ==
    IF k \in DOMAIN data
    THEN IF data[k].isList
         THEN [data EXCEPT ![k] = ListOf(Append(@.items, v))]
         ELSE [data EXCEPT ![k] = ListOf(<<@.items[1], v>>)]
    ELSE (k :> Scalar(v)) @@ data

\* uploaded.get("webViewLink")
LinkOf(id) == "https://drive/" \o ToString(id)

\* field_map = {f.get("id"): f for f in fields}: a later field with the same
\* id replaces the earlier one, at the earlier one's place in the order.
FieldMapKeys(fields) ==
    { i \in 1..Len(fields) : \A j \in 1..(i - 1) : fields[j].id # fields[i].id }
FieldMapValue(fields, fid) ==
    fields[CHOOSE i \in 1..Len(fields) :
              /\ fields[i].id = fid
              /\ \A j \in (i + 1)..Len(fields) : fields[j].id # fid]

\* RequiredMissing testing only that the key is present.
RequiredMissingKeyOnly(field, data) == field.required /\ field.id \notin DOMAIN data

\* field.get("required") and not data.get(fid)
RequiredMissing(field, data) == field.required /\ ~Truthy(Get(data, field.id))

\* The loop over field_map.items(): the position of the first key whose field
\* is required and missing, 0 when validation passes.
FirstMissing(fields, data) ==
    LET bad == { i \in FieldMapKeys(fields) :
                   RequiredMissing(FieldMapValue(fields, fields[i].id), data) } IN
    IF bad = {} THEN 0 ELSE CHOOSE i \in bad : \A j \in bad : i <= j

\* field.get('label') or fid
LabelOrId(field) == IF field.label # "" THEN field.label ELSE field.id

\* combined = {**data, **file_links}
Combined(data, file_links) ==
    [k \in DOMAIN data \cup DOMAIN file_links |->
        IF k \in DOMAIN file_links THEN Scalar(file_links[k]) ELSE data[k]]

\* ValidationInput reading the uploaded files' links as well.
ValidationInputWithFiles(data, file_links) == Combined(data, file_links)

\* What the required check reads: data only, never file_links.
ValidationInput(data, file_links) == data

\* One cell: a list comma-joined, anything else as it is (None for no entry).
Cell(value) == IF value.isList THEN Scalar(Join(value.items)) ELSE value

\* append_submission_to_sheet's row: the time of the call, then one cell per
\* field of the form in order.
BuildRow(fields, data, t) ==
    [ts |-> IsoFormat(t),
     cells |-> [i \in 1..Len(fields) |-> Cell(Get(data, fields[i].id))]]

NoResult == [kind |-> "none", field |-> "", sub_id |-> 0]
RqIdle ==
    [pc |-> "idle", payload |-> JsonBody(EmptyMap), form |-> 0, idx |-> 1,
     data |-> EmptyMap, file_links |-> EmptyMap, result |-> NoResult,
     ups |-> {}, tries |-> 0, events |-> <<>>, mirror |-> "none", appends |-> 0]

Fail(q, kind, field) ==
    [q EXCEPT !.pc = "done", !.result = [kind |-> kind, field |-> field, sub_id |-> 0]]

\* Find the form; a JSON body's "data" is the attribute map.
SubmitStart(r, slug, payload) ==
    /\ rq[r].pc = "idle"
    /\ LET f == FindOne(slug)
           q == [rq[r] EXCEPT !.payload = payload, !.form = f] IN
       rq' = [rq EXCEPT ![r] =
                IF f = 0 THEN Fail(q, "FormNotFound", "")
                ELSE IF payload.json
                     THEN [q EXCEPT !.pc = "validate", !.data = payload.data]
                     ELSE [q EXCEPT !.pc = IF Len(payload.items) = 0 THEN "validate"
                                           ELSE "entries"]]
    /\ UNCHANGED <<now, forms, submissions, blobs, tabs, sheet, cr, fItems, fIdx, fData>>

Advance(q) ==
    [q EXCEPT !.idx = @ + 1,
              !.pc = IF q.idx + 1 > Len(q.payload.items) THEN "validate" ELSE "entries"]

\* OnUploadFailure with the error swallowed and the loop going on.
OnUploadFailureSkipped(q) ==
    Advance([q EXCEPT !.tries = @ + 1, !.events = Append(@, "upload_failed")])

\* upload_file_to_drive raised: the exception leaves submit_form.
OnUploadFailure(q) ==
    Fail([q EXCEPT !.tries = @ + 1, !.events = Append(@, "upload_failed")],
         "UploadFailed", "")

\* upload_file_to_drive returns the link (a failed permission grant is swallowed
\* and changes nothing the pipeline reads) or raises.
UploadOutcomes == {"ok", "fail"}

\* One iteration of the loop over form.multi_items().
ProcessEntry(r, outcome) ==
    /\ rq[r].pc = "entries"
    /\ LET q == rq[r]
           e == q.payload.items[q.idx] IN
       IF e.isFile /\ e.filename # ""
       THEN IF outcome = "fail"
            THEN /\ rq' = [rq EXCEPT ![r] = OnUploadFailure(q)]
                 /\ blobs' = blobs
            ELSE LET id == Len(blobs) + 1 IN
                 /\ blobs' = Append(blobs, [id |-> id, name |-> e.filename, req |-> r])
                 /\ rq' = [rq EXCEPT ![r] =
                             Advance([q EXCEPT
                                 !.file_links = (e.key :> LinkOf(id)) @@ @,
                                 !.ups = @ \cup {id},
                                 !.tries = @ + 1,
                                 !.events = Append(@, "upload")])]
       ELSE /\ outcome = "ok"
            /\ blobs' = blobs
            /\ rq' = [rq EXCEPT ![r] =
                        Advance(IF e.isFile THEN q
                                ELSE [q EXCEPT !.data = FoldEntry(@, e.key, e.text)])]
    /\ UNCHANGED <<now, forms, submissions, tabs, sheet, cr, fItems, fIdx, fData>>

\* SubmissionSchema keeping only the keys the form declares.
SubmissionSchemaDeclaredOnly(q, r) ==
    LET ids == { forms[q.form].fields[j].id : j \in 1..Len(forms[q.form].fields) } IN
    [form_id |-> forms[q.form].id,
     data |-> [k \in DOMAIN q.data \cap ids |-> q.data[k]],
     file_links |-> q.file_links, req |-> r]

\* SubmissionSchema(form_id=str(form_doc["_id"]), data=data, file_links=file_links);
\* req names the call that built it.
SubmissionSchema(q, r) ==
    [form_id |-> forms[q.form].id, data |-> q.data, file_links |-> q.file_links, req |-> r]

\* OnCommitFailure with the error swallowed and the sheet step still run.
OnCommitFailureSwallowed(q) == [q EXCEPT !.pc = "mirror"]

\* create_document raised: the exception leaves submit_form before the sheet step.
OnCommitFailure(q) == Fail(q, "CommitFailed", "")

\* The required check, then the insert.
ValidateAndStore(r, ok) ==
    /\ rq[r].pc = "validate"
    /\ LET q == rq[r]
           fields == forms[q.form].fields
           m == FirstMissing(fields, ValidationInput(q.data, q.file_links)) IN
       IF m # 0
       THEN /\ rq' = [rq EXCEPT ![r] =
                        Fail(q, "RequiredFieldMissing",
                             LabelOrId(FieldMapValue(fields, fields[m].id)))]
            /\ submissions' = submissions
       ELSE IF ~ok
       THEN /\ rq' = [rq EXCEPT ![r] = OnCommitFailure(q)]
            /\ submissions' = submissions
       ELSE LET id == Len(submissions) + 1 IN
            /\ submissions' = Append(submissions, CreateDocument(id, SubmissionSchema(q, r), now))
            /\ rq' = [rq EXCEPT ![r] = [q EXCEPT !.pc = "mirror", !.result.sub_id = id,
                                                 !.events = Append(@, "commit")]]
    /\ UNCHANGED <<now, forms, blobs, tabs, sheet, cr, fItems, fIdx, fData>>

\* What append_submission_to_sheet can do: append the row, or raise for missing
\* credentials, an invalid spreadsheet reference, or a remote append error.
MirrorOutcomes == {"ok", "no_credentials", "invalid_spreadsheet", "append_error"}

\* AfterMirror with a sheet error reaching the caller.
AfterMirrorRaising(q, outcome) ==
    IF outcome = "ok"
    THEN [q EXCEPT !.pc = "done", !.result.kind = "ok", !.mirror = outcome,
                   !.appends = @ + 1, !.events = Append(@, "append")]
    ELSE [q EXCEPT !.pc = "done", !.result.kind = "SinkMirrorFailed", !.mirror = outcome,
                   !.appends = @ + 1, !.events = Append(@, "append_failed")]

\* The except clause and the return: whatever the sheet step did, the response is the success.
AfterMirror(q, outcome) ==
    [q EXCEPT !.pc = "done", !.result.kind = "ok", !.mirror = outcome,
              !.appends = @ + 1,
              !.events = Append(@, IF outcome = "ok" THEN "append" ELSE "append_failed")]

\* The try block of submit_form and the return.
MirrorToSheet(r, outcome) ==
    /\ rq[r].pc = "mirror"
    /\ LET q == rq[r]
           f == forms[q.form]
           row == BuildRow(f.fields, Combined(q.data, q.file_links), now) IN
       /\ sheet' = IF outcome = "ok"
                   THEN Append(sheet, [tab |-> f.sheet_name, ts |-> row.ts,
                                       cells |-> row.cells, sub |-> q.result.sub_id,
                                       req |-> r])
                   ELSE sheet
       /\ rq' = [rq EXCEPT ![r] = AfterMirror(q, outcome)]
    /\ UNCHANGED <<now, forms, submissions, blobs, tabs, cr, fItems, fIdx, fData>>

\* Time passes.
Tick ==
    /\ now < MaxClock
    /\ now' = now + 1
    /\ UNCHANGED <<forms, submissions, blobs, tabs, sheet, cr, rq, fItems, fIdx, fData>>

\* The forms three create_form calls made at time 0, before any submit.
InitialForms ==
    [i \in 1..3 |->
        CreateDocument(i, FormSchema(FormRequestSeq[i], SheetTitle(FormRequestSeq[i].title, 0), 0), 0)]

Init ==
    /\ now = 0
    /\ forms = InitialForms
    /\ submissions = <<>>
    /\ blobs = <<>>
    /\ tabs = { InitialForms[i].sheet_name : i \in 1..3 }
    /\ sheet = <<>>
    /\ cr = [c \in Creators |-> CrIdle]
    /\ rq = [r \in Requests |-> RqIdle]
    /\ fItems = <<>>
    /\ fIdx = 1
    /\ fData = EmptyMap

\* submit_form calls against the forms of InitialForms.
Next ==
    \/ Tick
    \/ \E r \in Requests, slug \in SlugsTried, payload \in Payloads : SubmitStart(r, slug, payload)
    \/ \E r \in Requests, outcome \in UploadOutcomes : ProcessEntry(r, outcome)
    \/ \E r \in Requests, ok \in BOOLEAN : ValidateAndStore(r, ok)
    \/ \E r \in Requests, outcome \in MirrorOutcomes : MirrorToSheet(r, outcome)

Spec == Init /\ [][Next]_vars

\* create_form calls on an empty store.
InitForms ==
    /\ now = 0
    /\ forms = <<>>
    /\ submissions = <<>>
    /\ blobs = <<>>
    /\ tabs = {}
    /\ sheet = <<>>
    /\ cr = [c \in Creators |-> CrIdle]
    /\ rq = [r \in Requests |-> RqIdle]
    /\ fItems = <<>>
    /\ fIdx = 1
    /\ fData = EmptyMap

NextForms ==
    \/ Tick
    \/ \E c \in Creators, body \in FormRequests, ok \in BOOLEAN : CreateSheetTab(c, body, ok)
    \/ \E c \in Creators, ok \in BOOLEAN : CreateFormInsert(c, ok)

SpecForms == InitForms /\ [][NextForms]_vars

\* The text branch of the multipart loop alone, over every short payload.
FoldKeys == {"colors", "name"}
FoldValues == {"red", "green", "blue"}
FoldEntries == { TextEntry(k, v) : k \in FoldKeys, v \in FoldValues }
FoldInputs == UNION { [1..n -> FoldEntries] : n \in 0..MaxEntries }

InitFold ==
    /\ now = 0
    /\ forms = <<>>
    /\ submissions = <<>>
    /\ blobs = <<>>
    /\ tabs = {}
    /\ sheet = <<>>
    /\ cr = [c \in Creators |-> CrIdle]
    /\ rq = [r \in Requests |-> RqIdle]
    /\ fItems \in FoldInputs
    /\ fIdx = 1
    /\ fData = EmptyMap

FoldStep ==
    /\ fIdx <= Len(fItems)
    /\ fData' = FoldEntry(fData, fItems[fIdx].key, fItems[fIdx].text)
    /\ fIdx' = fIdx + 1
    /\ UNCHANGED <<now, forms, submissions, blobs, tabs, sheet, cr, rq, fItems>>

NextFold == FoldStep

SpecFold == InitFold /\ [][NextFold]_vars

\* ------------------------------------------------------------ properties
\* What the properties speak of: the attribute map a payload stands for, and
\* the records, rows and blobs a call made.
RECURSIVE TextValues(_, _)
TextValues(items, k) ==
    IF Len(items) = 0 THEN <<>>
    ELSE IF ~items[1].isFile /\ items[1].key = k
         THEN <<items[1].text>> \o TextValues(Tail(items), k)
         ELSE TextValues(Tail(items), k)

TextKeys(items) == { items[i].key : i \in { j \in 1..Len(items) : ~items[j].isFile } }

AttributeMap(p) ==
    IF p.json THEN p.data
    ELSE [k \in TextKeys(p.items) |->
            IF Len(TextValues(p.items, k)) = 1 THEN Scalar(TextValues(p.items, k)[1])
            ELSE ListOf(TextValues(p.items, k))]

SubsOf(r) == { i \in 1..Len(submissions) : submissions[i].req = r }
RowsOf(r) == { i \in 1..Len(sheet) : sheet[i].req = r }
BlobsOf(r) == { i \in 1..Len(blobs) : blobs[i].req = r }
Answered(r) == rq[r].pc = "done" /\ rq[r].form # 0
FieldsOf(r) == forms[rq[r].form].fields
Falsy(p, fid) == ~Truthy(Get(AttributeMap(p), fid))

\* The ids whose governing definition (the last field declared under the id)
\* is required and whose entry in the payload's attribute map is absent or falsy.
MissingIn(r) ==
    { i \in 1..Len(FieldsOf(r)) :
        /\ \A j \in 1..(i - 1) : FieldsOf(r)[j].id # FieldsOf(r)[i].id
        /\ \E l \in 1..Len(FieldsOf(r)) :
              /\ FieldsOf(r)[l].id = FieldsOf(r)[i].id
              /\ \A j \in (l + 1)..Len(FieldsOf(r)) : FieldsOf(r)[j].id # FieldsOf(r)[i].id
              /\ FieldsOf(r)[l].required
        /\ Falsy(rq[r].payload, FieldsOf(r)[i].id) }

LastLabelOrId(fields, fid) ==
    LET l == CHOOSE l \in 1..Len(fields) :
                 fields[l].id = fid /\ \A j \in (l + 1)..Len(fields) : fields[j].id # fid
    IN IF fields[l].label = "" THEN fid ELSE fields[l].label

C2_MirrorFailureIsolated ==
    \A r \in Requests : (rq[r].pc = "done" /\ rq[r].mirror \notin {"none", "ok"}) =>
        /\ rq[r].result.kind = "ok"
        /\ \E i \in SubsOf(r) : submissions[i].id = rq[r].result.sub_id
        /\ rq[r].appends = 1
        /\ RowsOf(r) = {}

\* C2 witness: an answered request whose append failed for missing credentials.
C2_Witness ==
    \E r \in Requests :
        /\ rq[r].pc = "done"
        /\ rq[r].mirror = "no_credentials"
        /\ rq[r].result.kind = "ok"
        /\ SubsOf(r) # {}

\* C3 as stated: a request that ended in RequiredFieldMissing has stored no
\* blob and no Submission record.
C3_AsStated ==
    \A r \in Requests : rq[r].result.kind = "RequiredFieldMissing" =>
        /\ BlobsOf(r) = {}
        /\ SubsOf(r) = {}

\* C4: within a request every upload precedes the commit and the append comes
\* only after a commit; every sheet row's Submission record is in the store,
\* and a failed commit leaves no row.
C4_Ordering ==
    /\ \A i \in 1..Len(sheet) :
          \E j \in 1..Len(submissions) :
              submissions[j].id = sheet[i].sub /\ submissions[j].req = sheet[i].req
    /\ \A r \in Requests :
          /\ rq[r].result.kind = "CommitFailed" => (RowsOf(r) = {} /\ rq[r].appends = 0)
          /\ \A i, j \in 1..Len(rq[r].events) :
                /\ (i < j /\ rq[r].events[i] = "commit") =>
                       rq[r].events[j] \notin {"upload", "upload_failed", "commit"}
                /\ rq[r].events[j] \in {"append", "append_failed"} =>
                       \E k \in 1..(j - 1) : rq[r].events[k] = "commit"

\* C4 witness: a request uploaded, committed and appended its row, in that order.
C4_Witness ==
    \E r \in Requests :
        /\ rq[r].events = <<"upload", "commit", "append">>
        /\ RowsOf(r) # {}

\* C5: once an upload of a request has failed the request is over with the
\* upload error: no Submission record, no sheet row, the blobs uploaded before
\* it still stored, and no later entry attempted.
C5_UploadFailureAborts ==
    \A r \in Requests :
        (\E i \in 1..Len(rq[r].events) : rq[r].events[i] = "upload_failed") =>
            /\ rq[r].pc = "done"
            /\ rq[r].result.kind = "UploadFailed"
            /\ SubsOf(r) = {}
            /\ RowsOf(r) = {}
            /\ rq[r].appends = 0
            /\ rq[r].ups = { blobs[i].id : i \in BlobsOf(r) }
            /\ LET items == rq[r].payload.items
                   named(n) == { i \in 1..n : items[i].isFile /\ items[i].filename # "" }
               IN /\ rq[r].idx \in named(Len(items))
                  /\ Cardinality(rq[r].ups) = Cardinality(named(rq[r].idx - 1))
                  /\ rq[r].tries = Cardinality(named(rq[r].idx))

\* C5 witness: the second upload of a request failed after the first was stored.
C5_Witness ==
    \E r \in Requests :
        /\ rq[r].result.kind = "UploadFailed"
        /\ Cardinality(BlobsOf(r)) = 1
        /\ rq[r].idx = 2

DeclaredIds(form_id) ==
    UNION { { forms[i].fields[j].id : j \in 1..Len(forms[i].fields) } :
            i \in { n \in 1..Len(forms) : forms[n].id = form_id } }

\* C6 as stated: every key of a stored Submission's attribute map is a field
\* id declared on the form it references.
C6_AsStated ==
    \A i \in 1..Len(submissions) :
        DOMAIN submissions[i].data \subseteq DeclaredIds(submissions[i].form_id)

\* C6 amended: a stored Submission's attribute map is the payload's attribute
\* map unchanged: its keys are exactly the payload's keys, declared on the form
\* or not, so an undeclared payload key is stored, not dropped.
C6_PayloadStoredUnfiltered ==
    \A i \in 1..Len(submissions) :
        /\ submissions[i].data = AttributeMap(rq[submissions[i].req].payload)
        /\ submissions[i].form_id = forms[rq[submissions[i].req].form].id

\* C6 witness: a stored Submission holds a key its form does not declare.
C6_Witness ==
    \E i \in 1..Len(submissions) :
        "extra" \in DOMAIN submissions[i].data \ DeclaredIds(submissions[i].form_id)

\* C7: after any number of iterations of the multipart loop, each key maps to
\* the text values that arrived under it, in arrival order: one value as a
\* scalar, two or more as the list of all of them, whatever arrived between.
C7_FoldInArrivalOrder ==
    LET seen == SubSeq(fItems, 1, fIdx - 1) IN
    /\ DOMAIN fData = TextKeys(seen)
    /\ \A k \in DOMAIN fData :
          IF Len(TextValues(seen, k)) = 1
          THEN fData[k] = Scalar(TextValues(seen, k)[1])
          ELSE fData[k] = ListOf(TextValues(seen, k))

\* C7 witness: colors = red, green, blue folded to the list of the three.
C7_Witness ==
    /\ fIdx > Len(fItems)
    /\ "colors" \in DOMAIN fData
    /\ fData["colors"] = ListOf(<<"red", "green", "blue">>)

\* What the sheet should show for one field of a Submission.
ExpectedCell(sub, fid) ==
    IF fid \in DOMAIN sub.file_links THEN Scalar(sub.file_links[fid])
    ELSE IF fid \notin DOMAIN sub.data THEN None
    ELSE IF sub.data[fid].isList THEN Scalar(Join(sub.data[fid].items))
    ELSE sub.data[fid]

\* C8 as stated: a row has one cell per field of the form after its first
\* cell, the first cell is the Submission's creation timestamp in ISO-8601,
\* and cell i+1 is the value of the i-th field (comma-joined list, empty when
\* missing).
C8_AsStated ==
    \A i \in 1..Len(sheet) :
        \A j \in 1..Len(submissions) : submissions[j].id = sheet[i].sub =>
            LET fields == forms[rq[sheet[i].req].form].fields IN
            /\ Len(sheet[i].cells) = Len(fields)
            /\ sheet[i].ts = IsoFormat(submissions[j].created_at)
            /\ \A n \in 1..Len(fields) :
                  sheet[i].cells[n] = ExpectedCell(submissions[j], fields[n].id)

\* C9 as stated: no two stored forms have the same share slug.
C9_AsStated ==
    \A i, j \in 1..Len(forms) : i # j => forms[i].share_slug # forms[j].share_slug

====
